---- MODULE Spec2Model ----
(***************************************************************************)
(* A model of the vscode-colorpicker extension: lib/commands.js (the       *)
(* showPicker command and its colorRegexp) and the extension entry point   *)
(* that registers the command.                                             *)
(*                                                                         *)
(* Text is a sequence of one-character strings.  A position inside a text  *)
(* is 1-based (the index of the next character to read); the offsets of a  *)
(* range, like the editor's, are 0-based with an exclusive end.            *)
(***************************************************************************)
EXTENDS Integers, Sequences, FiniteSets, TLC

VARIABLES
    activeTextEditor,   \* whether vscode.window.activeTextEditor is set
    docText,            \* the text of the editor's document
    openedText,         \* the text the document was opened with (history)
    selection,          \* the editor's selection: [anchor, active]
    config,             \* the workspace configuration
    invocations,        \* what each showPicker call did, in call order
    procs,              \* the picker processes spawned, in spawn order
    errorMessages,      \* notifications shown by window.showErrorMessage
    console,            \* entries written by console.log / warn / error
    lookup              \* the last stand-alone word-range lookup

vars == <<activeTextEditor, docText, openedText, selection, config,
          invocations, procs, errorMessages, console, lookup>>

(***************************************************************************)
(* Characters                                                              *)
(***************************************************************************)
Digits == {"0", "1", "2", "3", "4", "5", "6", "7", "8", "9"}

Lowers == <<"a", "b", "c", "d", "e", "f", "g", "h", "i", "j", "k", "l", "m",
            "n", "o", "p", "q", "r", "s", "t", "u", "v", "w", "x", "y", "z">>

Uppers == <<"A", "B", "C", "D", "E", "F", "G", "H", "I", "J", "K", "L", "M",
            "N", "O", "P", "Q", "R", "S", "T", "U", "V", "W", "X", "Y", "Z">>

\* The /i flag of colorRegexp: a character is compared by its lower-case form.
Fold(c) ==
    IF \E k \in 1..Len(Uppers) : Uppers[k] = c
    THEN Lowers[CHOOSE k \in 1..Len(Uppers) : Uppers[k] = c]
    ELSE c

\* [0-9A-F] under /i.
HexDigits == Digits \cup {"a", "b", "c", "d", "e", "f"}

(***************************************************************************)
(* A backtracking matcher.  Every piece of the pattern, tried at position  *)
(* i of s, gives the sequence of positions it can end at, in the order the *)
(* regular-expression engine tries them (greedy: longest first, lazy:      *)
(* shortest first, alternatives left to right).  The engine's match is the *)
(* first element of the sequence of the whole pattern.                     *)
(***************************************************************************)
\* Pieces in sequence: for each end of the first piece, in order, the ends of
\* the next piece from there.
Then(ps, F(_)) ==
    LET acc[k \in 0..Len(ps)] ==
            IF k = 0 THEN <<>> ELSE acc[k - 1] \o F(ps[k])
    IN  acc[Len(ps)]

\* One character of a class.
Char(s, i, class) ==
    IF i <= Len(s) /\ Fold(s[i]) \in class THEN <<i + 1>> ELSE <<>>

\* A literal word (given in lower case).
Str(s, i, w) ==
    IF /\ i + Len(w) - 1 <= Len(s)
       /\ \A k \in 1..Len(w) : Fold(s[i + k - 1]) = w[k]
    THEN <<i + Len(w)>>
    ELSE <<>>

\* The number of consecutive characters of a class from position i on.
RunLen(s, i, class) ==
    LET stops == {j \in i..Len(s) : Fold(s[j]) \notin class}
    IN  IF stops = {} THEN (IF i > Len(s) THEN 0 ELSE Len(s) - i + 1)
        ELSE (CHOOSE j \in stops : \A l \in stops : j <= l) - i

\* class{lo,hi}, greedy: the longest run first.
Greedy(s, i, class, lo, hi) ==
    LET run == RunLen(s, i, class)
        most == IF run < hi THEN run ELSE hi
    IN  IF most < lo THEN <<>>
        ELSE [k \in 1..(most - lo + 1) |-> i + most - (k - 1)]

\* class{lo,}?, lazy: the shortest run first.
Lazy(s, i, class, lo) ==
    LET run == RunLen(s, i, class)
    IN  IF run < lo THEN <<>>
        ELSE [k \in 1..(run - lo + 1) |-> i + lo + (k - 1)]

\* \d+
Number(s, i) == Greedy(s, i, Digits, 1, Len(s))

\* (\.\d+)?
OptFraction(s, i) ==
    Then(Char(s, i, {"."}), LAMBDA p : Number(s, p)) \o <<i>>

\* " *"
Spaces(s, i) == Greedy(s, i, {" "}, 0, Len(s))

\* " *?"
SpacesLazy(s, i) == Lazy(s, i, {" "}, 0)

\* (%|deg|rad|grad|turn)?
OptUnit(s, i) ==
    Str(s, i, <<"%">>) \o Str(s, i, <<"d", "e", "g">>)
        \o Str(s, i, <<"r", "a", "d">>) \o Str(s, i, <<"g", "r", "a", "d">>)
        \o Str(s, i, <<"t", "u", "r", "n">>) \o <<i>>

\* (\d+(\.\d+)? *(%|deg|rad|grad|turn)?[,\/ ] *?)
Component(s, i) ==
    Then(Then(Then(Then(Then(Number(s, i),
        LAMBDA p : OptFraction(s, p)),
        LAMBDA p : Spaces(s, p)),
        LAMBDA p : OptUnit(s, p)),
        LAMBDA p : Char(s, p, {",", "/", " "})),
        LAMBDA p : SpacesLazy(s, p))

\* (rgb|hsl)a? *\( *
FunctionHead(s, i) ==
    Then(Then(Then(Then(
        Str(s, i, <<"r", "g", "b">>) \o Str(s, i, <<"h", "s", "l">>),
        LAMBDA p : Char(s, p, {"a"}) \o <<p>>),
        LAMBDA p : Spaces(s, p)),
        LAMBDA p : Char(s, p, {"("})),
        LAMBDA p : Spaces(s, p))

\* \d+(\.\d+)? *%?\)
LastComponent(s, i) ==
    Then(Then(Then(Then(Number(s, i),
        LAMBDA p : OptFraction(s, p)),
        LAMBDA p : Spaces(s, p)),
        LAMBDA p : Char(s, p, {"%"}) \o <<p>>),
        LAMBDA p : Char(s, p, {")"}))

\* The first alternative: ((rgb|hsl)a? *\( *(...){3}\d+(\.\d+)? *%?\))
FunctionalAlt(s, i) ==
    Then(Then(Then(Then(FunctionHead(s, i),
        LAMBDA p : Component(s, p)),
        LAMBDA p : Component(s, p)),
        LAMBDA p : Component(s, p)),
        LAMBDA p : LastComponent(s, p))

\* {3,8} of the second alternative.
HexMin == 3
HexMax == 8

\* The second alternative: (#[0-9A-F]{3,8})
HexAlt(s, i) ==
    Then(Char(s, i, {"#"}), LAMBDA p : Greedy(s, p, HexDigits, HexMin, HexMax))

\* colorRegexp tried at position i: the position after the match, 0 if none.
colorRegexp(s, i) ==
    LET ends == FunctionalAlt(s, i) \o HexAlt(s, i)
    IN  IF ends = <<>> THEN 0 ELSE Head(ends)

(***************************************************************************)
(* The editor API used by the command                                      *)
(***************************************************************************)
\* undefined, as a range.
NoRange == [start |-> -1, end |-> -1]

\* TextDocument.getWordRangeAtPosition(position, regex) on a one-line
\* document: the matches of the regex are taken from left to right, each
\* search starting where the last match ended, and the first match that
\* holds the position (its end included) is the range; undefined if none.
ScanWords(s, offset, end) ==
    LET scan[from \in 1..(Len(s) + 1)] ==
            IF \A j \in from..Len(s) : end[j] = 0 THEN NoRange
            ELSE LET j == CHOOSE a \in from..Len(s) :
                            end[a] # 0 /\ \A b \in from..(a - 1) : end[b] = 0
                 IN  IF j - 1 <= offset /\ offset <= end[j] - 1
                     THEN [start |-> j - 1, end |-> end[j] - 1]
                     ELSE scan[end[j]]
    IN  scan[1]

getWordRangeAtPosition(s, offset) ==
    ScanWords(s, offset, [j \in 1..Len(s) |-> colorRegexp(s, j)])

\* TextDocument.getText(range): the whole text when the range is undefined.
getText(s, range) ==
    IF range = NoRange THEN s ELSE SubSeq(s, range.start + 1, range.end)

(***************************************************************************)
(* lib/commands.js: showPicker.  The file assigns exports.showPicker       *)
(* twice; a call's effects are computed first and applied by ShowPicker.   *)
(***************************************************************************)
\* A variant of NoEditorEffects without the early return: the try block goes
\* on, textEditor.document raises a TypeError and the handler catches it.
NoEditorFallThrough ==
    [hadEditor |-> FALSE, threw |-> TRUE, outcome |-> "caught",
     wordRange |-> NoRange, args |-> <<>>, spawned |-> FALSE,
     warn |-> 1, log |-> 0, error |-> 1, notified |-> 1,
     readDocument |-> FALSE, readConfig |-> FALSE, proc |-> 0]

\* if (!textEditor) { console.warn('No active text editor.'); return; }
NoEditorEffects ==
    [hadEditor |-> FALSE, threw |-> FALSE, outcome |-> "noEditor",
     wordRange |-> NoRange, args |-> <<>>, spawned |-> FALSE,
     warn |-> 1, log |-> 0, error |-> 0, notified |-> 0,
     readDocument |-> FALSE, readConfig |-> FALSE, proc |-> 0]

\* A variant of CatchEffects that logs the error and shows no notification.
CatchSilently(tried) ==
    IF tried.threw
    THEN [tried EXCEPT !.outcome = "caught", !.error = 1]
    ELSE tried

\* catch (e) { vscode.window.showErrorMessage(e+''); console.error(e); }
CatchEffects(tried) ==
    IF tried.threw
    THEN [tried EXCEPT !.outcome = "caught", !.notified = 1, !.error = 1]
    ELSE tried

\* console.log({...}); let res = spawn(pickerPath, args);
\* console.log(res.stdout.toString());
\* spawnThrows: spawn raises (the process cannot be started).
SpawnEffects(wordRange, args, readConfig, spawnThrows) ==
    [hadEditor |-> TRUE, threw |-> spawnThrows,
     outcome |-> IF spawnThrows THEN "escaped" ELSE "spawned",
     wordRange |-> wordRange, args |-> args, spawned |-> ~spawnThrows,
     warn |-> 0, log |-> IF spawnThrows THEN 1 ELSE 2,
     error |-> 0, notified |-> 0,
     readDocument |-> TRUE, readConfig |-> readConfig, proc |-> 0]

\* The first definition, from the range on: the font settings are read and
\* passed after the color.
WithRange_13(wordRange, spawnThrows) ==
    SpawnEffects(wordRange,
                 <<getText(docText, wordRange), "--font", config.fontFamily,
                   "--font-size", config.fontSize>>,
                 TRUE, spawnThrows)

\* The second definition, from the range on: the color is the only argument.
WithRange_48(wordRange, spawnThrows) ==
    SpawnEffects(wordRange, <<getText(docText, wordRange)>>, FALSE,
                 spawnThrows)

\* The try block of the first definition.
TryBody_13(spawnThrows) ==
    WithRange_13(getWordRangeAtPosition(docText, selection.anchor),
                 spawnThrows)

\* The try block of the second definition.
TryBody_48(spawnThrows) ==
    WithRange_48(getWordRangeAtPosition(docText, selection.anchor),
                 spawnThrows)

showPicker_13(spawnThrows) ==
    IF ~activeTextEditor THEN NoEditorEffects
    ELSE CatchEffects(TryBody_13(spawnThrows))

showPicker_48(spawnThrows) ==
    IF ~activeTextEditor THEN NoEditorEffects
    ELSE CatchEffects(TryBody_48(spawnThrows))

\* module.exports after the file has run: the second assignment to
\* exports.showPicker replaces the first.
commandsExports ==
    LET first == [showPicker |-> "showPicker_13"]
    IN  [first EXCEPT !.showPicker = "showPicker_48"]

\* activate: registerCommand binds the command to the exported handler named
\* by the last segment of the command's identifier.
activate == commandsExports.showPicker

(***************************************************************************)
(* Bounds and inputs                                                       *)
(***************************************************************************)
MaxInvocations == 2

Documents ==
    { <<"x", " ", "#", "F", "F", "F", " ", "#", "a", "b", "c">>,
      <<"n", "o", " ", "c", "o", "l", "o", "r">> }

PickerOutputs ==
    { <<"#", "A", "A", "B", "B", "C", "C", "\n">>,
      <<"c", "a", "n", "c", "e", "l", "l", "e", "d">> }

ExitCodes == {0, 1}

\* editor.fontFamily and editor.fontSize, both configured.
Configurations == { [fontFamily |-> "monospace", fontSize |-> "14"] }

\* The inputs of the stand-alone lookups: literals of the color grammar,
\* alone and inside a line, and "#" followed by 0..MaxHexRun hex digits.
MaxHexRun == 9

GrammarLiterals ==
    { <<"#", "F", "F", "F">>,
      <<"#", "1", "A", "2", "b", "3", "C">>,
      <<"#", "1", "1", "2", "2", "3", "3", "4", "4">>,
      <<"r", "g", "b", "(", "1", "0", ",", " ", "2", "0", ",", " ", "3", "0", ")">>,
      <<"r", "g", "b", "a", "(", "1", "0", ",", "2", "0", ",", "3", "0", ",", ".", "5", ")">>,
      <<"h", "s", "l", "(", "9", "0", "d", "e", "g", ",", " ", "2", "0", "%", ",", " ", "5", "0", "%", ")">>,
      <<"r", "g", "b", "a", "(", "2", "5", "5", ",", " ", "1", "7", ",", " ", "3", "4", ",", " ", "0", ".", "5", "3", ")">>,
      <<"h", "s", "l", "a", "(", "9", "0", "d", "e", "g", ",", "2", "0", "%", ",", "5", "0", "%", ",", "1", ")">> }

HexPalette == <<"1", "A", "f", "0", "b", "9", "C">>

HexRun(n) ==
    [k \in 1..(n + 1) |->
        IF k = 1 THEN "#" ELSE HexPalette[((k - 2) % Len(HexPalette)) + 1]]

HexRuns == {HexRun(n) : n \in 0..MaxHexRun}

LinePrefix == <<"x", " ">>

Embed(literal) == LinePrefix \o literal \o <<" ", "y">>

MatcherDocuments ==
    (GrammarLiterals \cup HexRuns)
        \cup {Embed(l) : l \in GrammarLiterals \cup HexRuns}

NoLookup == [done |-> FALSE, offset |-> 0, range |-> NoRange, color |-> <<>>]

(***************************************************************************)
(* The state machine                                                       *)
(***************************************************************************)
Start(documents) ==
    /\ docText \in documents
    /\ openedText = docText
    /\ selection = [anchor |-> 0, active |-> 0]
    /\ config \in Configurations
    /\ invocations = <<>>
    /\ procs = <<>>
    /\ errorMessages = 0
    /\ console = [log |-> 0, warn |-> 0, error |-> 0]
    /\ lookup = NoLookup

Init ==
    /\ activeTextEditor \in BOOLEAN
    /\ Start(Documents)

\* The user opens or focuses an editor, or leaves it.
SetActiveEditor(b) ==
    /\ b # activeTextEditor
    /\ activeTextEditor' = b
    /\ UNCHANGED <<docText, openedText, selection, config, invocations,
                   procs, errorMessages, console, lookup>>

\* The user puts the cursor at an offset of the document.
SetCursor(offset) ==
    /\ activeTextEditor
    /\ offset # selection.anchor \/ offset # selection.active
    /\ selection' = [anchor |-> offset, active |-> offset]
    /\ UNCHANGED <<activeTextEditor, docText, openedText, config,
                   invocations, procs, errorMessages, console, lookup>>

\* The command is invoked: the registered handler runs to its end.
ShowPicker(spawnThrows) ==
    /\ Len(invocations) < MaxInvocations
    /\ \E eff \in {IF activate = "showPicker_13"
                   THEN showPicker_13(spawnThrows)
                   ELSE showPicker_48(spawnThrows)} :
           /\ procs' = IF eff.spawned
                       THEN Append(procs, [args |-> eff.args, stdout |-> <<>>,
                                           exited |-> FALSE, code |-> 0])
                       ELSE procs
           /\ invocations' =
                Append(invocations,
                       [eff EXCEPT !.proc = IF eff.spawned
                                            THEN Len(procs) + 1 ELSE 0])
           /\ errorMessages' = errorMessages + eff.notified
           /\ console' = [log |-> console.log + eff.log,
                          warn |-> console.warn + eff.warn,
                          error |-> console.error + eff.error]
    /\ UNCHANGED <<activeTextEditor, docText, openedText, selection, config,
                   lookup>>

\* A running picker writes to its standard output.  Nothing listens.
PickerWrite(i, out) ==
    /\ i \in 1..Len(procs)
    /\ ~procs[i].exited
    /\ procs[i].stdout = <<>>
    /\ procs' = [procs EXCEPT ![i].stdout = out]
    /\ UNCHANGED <<activeTextEditor, docText, openedText, selection, config,
                   invocations, errorMessages, console, lookup>>

\* A variant of PickerExit with an exit listener that writes whatever the
\* picker printed into the document, whatever the exit code.
PickerExitWritesBack(i, code) ==
    /\ i \in 1..Len(procs)
    /\ ~procs[i].exited
    /\ procs' = [procs EXCEPT ![i].exited = TRUE, ![i].code = code]
    /\ docText' = procs[i].stdout
    /\ errorMessages' = errorMessages
    /\ UNCHANGED <<activeTextEditor, openedText, selection, config,
                   invocations, console, lookup>>

\* A running picker exits.  showPicker registered no listener on the child,
\* so nothing of the extension runs.
PickerExit(i, code) ==
    /\ i \in 1..Len(procs)
    /\ ~procs[i].exited
    /\ procs' = [procs EXCEPT ![i].exited = TRUE, ![i].code = code]
    /\ docText' = docText
    /\ errorMessages' = errorMessages
    /\ UNCHANGED <<activeTextEditor, openedText, selection, config,
                   invocations, console, lookup>>

Next ==
    \/ \E b \in BOOLEAN : SetActiveEditor(b)
    \/ \E offset \in 0..Len(docText) : SetCursor(offset)
    \/ \E spawnThrows \in BOOLEAN : ShowPicker(spawnThrows)
    \/ \E i \in 1..MaxInvocations, out \in PickerOutputs : PickerWrite(i, out)
    \/ \E i \in 1..MaxInvocations, code \in ExitCodes : PickerExit(i, code)

Spec == Init /\ [][Next]_vars

(***************************************************************************)
(* The command invoked twice in rapid succession: no picker exits before   *)
(* the second call has been made.                                          *)
(***************************************************************************)
RapidExit(i, code) ==
    /\ Len(invocations) >= 2
    /\ PickerExit(i, code)

RapidNext ==
    \/ \E b \in BOOLEAN : SetActiveEditor(b)
    \/ \E offset \in 0..Len(docText) : SetCursor(offset)
    \/ \E spawnThrows \in BOOLEAN : ShowPicker(spawnThrows)
    \/ \E i \in 1..MaxInvocations, out \in PickerOutputs : PickerWrite(i, out)
    \/ \E i \in 1..MaxInvocations, code \in ExitCodes : RapidExit(i, code)

RapidSpec == Init /\ [][RapidNext]_vars

(***************************************************************************)
(* The word-range lookup on its own: the lookup and the text read of       *)
(* showPicker, applied to every input document at every cursor offset.     *)
(***************************************************************************)
MatcherInit ==
    /\ activeTextEditor = TRUE
    /\ Start(MatcherDocuments)

\* const wordRange = textEditor.document.getWordRangeAtPosition(
\*     textEditor.selection.anchor, colorRegexp);
\* const color = textEditor.document.getText(wordRange);
LookupWordRange ==
    /\ \E wordRange \in {getWordRangeAtPosition(docText, selection.anchor)} :
           lookup' = [done |-> TRUE, offset |-> selection.anchor,
                      range |-> wordRange,
                      color |-> getText(docText, wordRange)]
    /\ UNCHANGED <<activeTextEditor, docText, openedText, selection, config,
                   invocations, procs, errorMessages, console>>

MatcherNext ==
    \/ \E offset \in 0..Len(docText) : SetCursor(offset)
    \/ LookupWordRange

MatcherSpec == MatcherInit /\ [][MatcherNext]_vars

(***************************************************************************)
(* Vocabulary of the properties                                            *)
(***************************************************************************)
Whitespace == {" ", "\n"}

\* String.prototype.trim on the characters used here.
Trim(t) ==
    LET kept == {k \in 1..Len(t) : t[k] \notin Whitespace}
    IN  IF kept = {} THEN <<>>
        ELSE SubSeq(t, CHOOSE a \in kept : \A b \in kept : a <= b,
                       CHOOSE a \in kept : \A b \in kept : a >= b)

\* colorRegexp.test(t): the pattern matches somewhere in t.
Matches(t) == \E j \in 1..Len(t) : colorRegexp(t, j) # 0

\* The text with the range replaced.
Replace(text, range, new) ==
    SubSeq(text, 1, range.start) \o new \o SubSeq(text, range.end + 1, Len(text))

\* Picker i exited with code 0 and printed a color.
Succeeded(i) ==
    /\ procs[i].exited
    /\ procs[i].code = 0
    /\ Matches(Trim(procs[i].stdout))

\* Picker i exited with another code, or printed no color.
Failed(i) ==
    /\ procs[i].exited
    /\ procs[i].code # 0 \/ ~Matches(Trim(procs[i].stdout))

\* This step is a showPicker call.
Called == Len(invocations') = Len(invocations) + 1

\* What the call of this step did.
ThisCall == invocations'[Len(invocations')]

\* No color literal holds the offset.
OutsideLiterals(text, offset) ==
    \A j \in 1..Len(text) :
        \/ colorRegexp(text, j) = 0
        \/ offset < j - 1
        \/ offset > colorRegexp(text, j) - 1

(***************************************************************************)
(* The properties                                                          *)
(***************************************************************************)
\* C1: once the picker of a call that found a literal has exited with code 0
\* and its trimmed output matches the color pattern, the matched range holds
\* exactly that output and the rest of the document is unchanged.
C1_SuccessfulPickReplacesRange ==
    \A k \in 1..Len(invocations) :
        (/\ invocations[k].spawned
         /\ invocations[k].wordRange # NoRange
         /\ Succeeded(invocations[k].proc))
        => (/\ SubSeq(docText, invocations[k].wordRange.start + 1,
                      invocations[k].wordRange.start
                        + Len(Trim(procs[invocations[k].proc].stdout)))
                 = Trim(procs[invocations[k].proc].stdout)
            /\ Len(invocations) = 1 =>
                 docText = Replace(openedText, invocations[k].wordRange,
                                   Trim(procs[invocations[k].proc].stdout)))

\* C2: once a picker has exited with a non-zero code, or with output that
\* does not match the color pattern, no step changes the document, and the
\* exit itself shows no error notification: a step that changes the
\* document, or an exit that shows a notification, is taken only while no
\* picker has failed.
C2_FailedPickChangesNothing ==
    [][\/ /\ docText' = docText
          /\ (\E i \in 1..Len(procs) : ~procs[i].exited /\ procs'[i].exited)
               => errorMessages' = errorMessages
       \/ ~(\E i \in 1..Len(procs') : Failed(i)')]_vars

\* C2 witness: one picker has exited with code 1 and another with code 0
\* after printing "cancelled".
C2_Witness ==
    /\ \E i \in 1..Len(procs) : procs[i].exited /\ procs[i].code = 1
    /\ \E i \in 1..Len(procs) :
         /\ procs[i].exited
         /\ procs[i].code = 0
         /\ procs[i].stdout = <<"c", "a", "n", "c", "e", "l", "l", "e", "d">>

\* C3: a call with an active editor whose cursor is outside every color
\* literal finds no range, spawns no process and leaves the document alone.
C3_NoLiteralNoSpawn ==
    [][(Called /\ activeTextEditor /\ OutsideLiterals(docText, selection.anchor))
        => (/\ ThisCall.wordRange = NoRange
            /\ procs' = procs
            /\ docText' = docText)]_vars

\* C4: two calls made before either picker exits, on two different
\* literals, spawn one process each, carrying its own literal, and once both
\* pickers have exited successfully each range holds its own picker's output.
C4_TwoPicksBothApplied ==
    (/\ Len(invocations) >= 2
     /\ invocations[1].spawned /\ invocations[2].spawned
     /\ invocations[1].wordRange # NoRange
     /\ invocations[2].wordRange # NoRange
     /\ invocations[1].wordRange # invocations[2].wordRange)
    => (/\ invocations[1].proc # invocations[2].proc
        /\ \A k \in 1..2 :
             procs[invocations[k].proc].args[1]
               = getText(openedText, invocations[k].wordRange)
        /\ (Len(invocations) = 2 /\ Succeeded(invocations[1].proc)
                                 /\ Succeeded(invocations[2].proc))
             => \E lo, hi \in 1..2 :
                  /\ invocations[lo].wordRange.end
                       <= invocations[hi].wordRange.start
                  /\ docText =
                       Replace(Replace(openedText, invocations[hi].wordRange,
                                       Trim(procs[invocations[hi].proc].stdout)),
                               invocations[lo].wordRange,
                               Trim(procs[invocations[lo].proc].stdout)))

\* C5: with editor.fontFamily and editor.fontSize configured, every picker
\* spawned by the exported command gets the arguments
\* [color, '--font', fontFamily, '--font-size', fontSize].
C5_FontArgumentsPassed ==
    \A i \in 1..Len(procs) :
        /\ Len(procs[i].args) = 5
        /\ procs[i].args = <<procs[i].args[1], "--font", config.fontFamily,
                             "--font-size", config.fontSize>>

\* C6: in every call that spawns the picker for a matched literal, the
\* editor's selection is exactly the matched range when the spawn happens.
C6_SelectionShowsRange ==
    [][(Called /\ ThisCall.spawned /\ ThisCall.wordRange # NoRange)
        => selection' = [anchor |-> ThisCall.wordRange.start,
                         active |-> ThisCall.wordRange.end]]_vars

\* C7: a call in which an exception is raised catches it, shows exactly one
\* error notification, writes exactly one console.error entry, and leaves
\* the document unchanged.
C7_ExceptionCaughtOnce ==
    [][(Called /\ ThisCall.threw)
        => (/\ ThisCall.outcome = "caught"
            /\ errorMessages' = errorMessages + 1
            /\ console'.error = console.error + 1
            /\ docText' = docText)]_vars

\* C7 witness: a call with an active editor raised an exception in spawn.
C7_Witness ==
    \E k \in 1..Len(invocations) :
        invocations[k].hadEditor /\ invocations[k].threw

\* C8: a call without an active text editor logs one warning and returns:
\* no process, no error notification, no edit, no configuration or document
\* read.
C8_NoEditorWarnsAndReturns ==
    [][(Called /\ ~activeTextEditor)
        => (/\ ThisCall.outcome = "noEditor"
            /\ console'.warn = console.warn + 1
            /\ console'.error = console.error
            /\ procs' = procs
            /\ errorMessages' = errorMessages
            /\ docText' = docText
            /\ ~ThisCall.readDocument
            /\ ~ThisCall.readConfig)]_vars

\* C8 witness: a call was made without an active editor.
C8_Witness ==
    \E k \in 1..Len(invocations) : ~invocations[k].hadEditor

\* C9: for every literal of the color grammar, alone or inside a line, and
\* every cursor offset on the literal, the range found is the whole literal.
C9_LiteralRangeFound ==
    lookup.done =>
        \A l \in GrammarLiterals :
            /\ (docText = l /\ lookup.offset < Len(l))
                 => lookup.range = [start |-> 0, end |-> Len(l)]
            /\ (/\ docText = Embed(l)
                /\ lookup.offset >= Len(LinePrefix)
                /\ lookup.offset < Len(LinePrefix) + Len(l))
                 => lookup.range = [start |-> Len(LinePrefix),
                                    end |-> Len(LinePrefix) + Len(l)]

\* C10: "#" followed by n hex digits is found as one whole literal exactly
\* when n is 3, 4, 6 or 8.
C10_HexLengths ==
    lookup.done =>
        \A n \in 0..MaxHexRun :
            (docText = HexRun(n) /\ lookup.offset <= n)
              => (lookup.range = [start |-> 0, end |-> n + 1]
                    <=> n \in {3, 4, 6, 8})

====
